---------------------------- MODULE Spec2Model ----------------------------
(***************************************************************************)
(* GTFS Lake realtime server (src/gtfslake/realtime.py): descriptor        *)
(* builders, the three feed assemblers, the envelope, the two              *)
(* serializations, the memcache-backed response cache, the three request   *)
(* handlers, the constructor and the MQTT lifespan.                        *)
(*                                                                         *)
(* Python values are modelled as integers: None is the integer -1, 0 is a  *)
(* present but falsy value, 1 and 2 are ordinary present values, and       *)
(* Mistyped stands for a present value the protocol schema rejects (an     *)
(* unknown enum name, a string in a numeric field).  Python dicts are      *)
(* functions whose domain is the set of keys that were assigned.           *)
(***************************************************************************)
EXTENDS Integers, Sequences, FiniteSets, TLC

VARIABLES
    \* ---- construction and lifespan (GtfsLakeRealtimeServer.__init__, _lifespan)
    config_filename,  \* "none" or "file": the constructor's argument
    config_file,      \* the parsed content of the configuration file
    config,           \* self._config
    cache_client,     \* self._cache: "unset", "none" or "memcache"
    routes,           \* the paths registered on the router
    server,           \* "new", "constructed", "construct_error", "serving",
                      \* "startup_error", "stopped"
    mqtt,             \* the notification client: "idle", "connected", "looping",
                      \* "subscribed", "reconnecting", "stopped"
    \* ---- request serving (_service_alerts, _trip_updates, _vehicle_positions)
    now,              \* wall clock, whole seconds since the epoch
    utc_offset,       \* the host time zone's offset from UTC, in seconds
    lake,             \* the Row Source's current content
    cache,            \* the memcached store: key -> entry
    cache_up,         \* whether the memcached server can be reached
    req,              \* per client: the request in flight and its handler's position
    received,         \* how many requests have arrived so far
    \* ---- pure assembly functions applied to drawn inputs
    task,             \* which function is applied
    input,            \* its argument
    output            \* its result, NotRun before the call

startVars == <<config_filename, config_file, config, cache_client, routes, server, mqtt>>
serveVars == <<now, utc_offset, lake, cache, cache_up, req, received>>
pureVars  == <<task, input, output>>
vars == <<config_filename, config_file, config, cache_client, routes, server, mqtt,
          now, utc_offset, lake, cache, cache_up, req, received, task, input, output>>

-----------------------------------------------------------------------------
(* Values *)

None == -1
Mistyped == 9

\* Values a nullable column can hold: null, a falsy value, a truthy value.
FieldValues == {None, 0, 1}

EmptyDict == [k \in {} |-> None]

\* d[k] = v for every k of `keys` whose source field is not None:
\*   if input[src] is not None: d[k] = input[src]
SetIfNotNone(row, source) ==
    [k \in {k \in DOMAIN source : row[source[k]] # None} |-> row[source[k]]]

\* The same with Python truthiness instead of `is not None`.
SetIfTruthy(row, source) ==
    [k \in {k \in DOMAIN source : row[source[k]] # None /\ row[source[k]] # 0}
        |-> row[source[k]]]

\* rows.filter(pl.col(column) == value): the rows whose column equals value,
\* in the frame's order; a comparison with null is null, which filter drops.
RECURSIVE FilterRows(_, _, _)
FilterRows(rows, column, value) ==
    IF rows = <<>> THEN <<>>
    ELSE LET rest == FilterRows(Tail(rows), column, value)
         IN  IF value # None /\ Head(rows)[column] = value
             THEN <<Head(rows)>> \o rest ELSE rest

-----------------------------------------------------------------------------
(* Descriptor builders *)

\* A builder's `return None`.
NoDescriptor == [none |-> TRUE]

trip_descriptor_fields ==
    {"trip_id", "trip_route_id", "trip_direction_id", "trip_start_time",
     "trip_start_date", "trip_schedule_relationship"}

\* output key -> source field
TripDescriptorSource ==
    [trip_id |-> "trip_id", route_id |-> "trip_route_id",
     direction_id |-> "trip_direction_id", start_time |-> "trip_start_time",
     start_date |-> "trip_start_date",
     schedule_relationship |-> "trip_schedule_relationship"]

\* The builder with truthiness tests in place of `is not None`.
create_trip_descriptor_truthy(input_row) ==
    IF ~ (\A k \in trip_descriptor_fields : input_row[k] = None)
    THEN SetIfTruthy(input_row, TripDescriptorSource)
    ELSE NoDescriptor

create_trip_descriptor(input_row) ==
    IF ~ (\A k \in trip_descriptor_fields : input_row[k] = None)
    THEN SetIfNotNone(input_row, TripDescriptorSource)
    ELSE NoDescriptor

vehicle_descriptor_fields ==
    {"vehicle_id", "vehicle_label", "vehicle_license_plate",
     "vehicle_wheelchair_accessible"}

VehicleDescriptorSource ==
    [id |-> "vehicle_id", label |-> "vehicle_label",
     license_plate |-> "vehicle_license_plate",
     wheelchair_accessible |-> "vehicle_wheelchair_accessible"]

create_vehicle_descriptor(input_row) ==
    IF ~ (\A k \in vehicle_descriptor_fields : input_row[k] = None)
    THEN SetIfNotNone(input_row, VehicleDescriptorSource)
    ELSE NoDescriptor

-----------------------------------------------------------------------------
(* Trip updates assembler *)

StopTimeUpdateSource == [stop_sequence |-> "stop_sequence", stop_id |-> "stop_id"]
ArrivalSource ==
    [time |-> "arrival_time", delay |-> "arrival_delay",
     uncertainty |-> "arrival_uncertainty"]
DepartureSource ==
    [time |-> "departure_time", delay |-> "departure_delay",
     uncertainty |-> "departure_uncertainty"]

\* The loop body with truthiness tests on the time fields.
create_stop_time_update_truthy(stop_time_update) ==
    SetIfNotNone(stop_time_update, StopTimeUpdateSource)
    @@ [arrival |-> SetIfTruthy(stop_time_update, ArrivalSource),
        departure |-> SetIfTruthy(stop_time_update, DepartureSource),
        schedule_relationship |-> stop_time_update["schedule_relationship"]]

\* The body of the loop over the matching stop-time-update rows: stu.
create_stop_time_update(stop_time_update) ==
    SetIfNotNone(stop_time_update, StopTimeUpdateSource)
    @@ [arrival |-> SetIfNotNone(stop_time_update, ArrivalSource),
        departure |-> SetIfNotNone(stop_time_update, DepartureSource),
        schedule_relationship |-> stop_time_update["schedule_relationship"]]

RECURSIVE MapStopTimeUpdates(_)
MapStopTimeUpdates(rows) ==
    IF rows = <<>> THEN <<>>
    ELSE <<create_stop_time_update(Head(rows))>> \o MapStopTimeUpdates(Tail(rows))

\* obj['vehicle_descriptor']['vehicle'] = vehicle_descriptor, on an obj that
\* has only the keys 'id' and 'trip_update': the subscript raises KeyError.
TripUpdateRaises(trip_update) ==
    create_vehicle_descriptor(trip_update) # NoDescriptor

\* One iteration of the loop over the trip-update rows, when it does not raise.
create_trip_update_entity(trip_update, trip_stop_time_updates) ==
    LET trip_descriptor == create_trip_descriptor(trip_update)
        matching == FilterRows(trip_stop_time_updates, "trip_update_id",
                               trip_update["trip_update_id"])
    IN  [id |-> trip_update["trip_update_id"],
         trip_update |->
            (IF trip_descriptor # NoDescriptor
             THEN [trip |-> trip_descriptor] ELSE EmptyDict)
            @@ [stop_time_update |-> MapStopTimeUpdates(matching)]]

RECURSIVE MapTripUpdates(_, _)
MapTripUpdates(trip_updates, trip_stop_time_updates) ==
    IF trip_updates = <<>> THEN <<>>
    ELSE <<create_trip_update_entity(Head(trip_updates), trip_stop_time_updates)>>
         \o MapTripUpdates(Tail(trip_updates), trip_stop_time_updates)

\* The loop that fills `objects` in _trip_updates: the entity list, or the
\* KeyError of the first row that has a vehicle descriptor.
trip_updates_objects(trip_updates, trip_stop_time_updates) ==
    IF \E i \in 1..Len(trip_updates) : TripUpdateRaises(trip_updates[i])
    THEN [ok |-> FALSE, error |-> "KeyError"]
    ELSE [ok |-> TRUE, objects |-> MapTripUpdates(trip_updates, trip_stop_time_updates)]

-----------------------------------------------------------------------------
(* Service alerts assembler *)

InformedEntitySource ==
    [agency_id |-> "agency_id", route_id |-> "route_id",
     route_type |-> "route_type", stop_id |-> "stop_id"]

create_active_period(active_period) ==
    [start |-> active_period["start_timestamp"],
     end |-> active_period["end_timestamp"]]

create_informed_entity(informed_entity) ==
    LET trip_descriptor == create_trip_descriptor(informed_entity)
    IN  SetIfNotNone(informed_entity, InformedEntitySource)
        @@ (IF trip_descriptor # NoDescriptor
            THEN [trip |-> trip_descriptor] ELSE EmptyDict)

RECURSIVE MapActivePeriods(_)
MapActivePeriods(rows) ==
    IF rows = <<>> THEN <<>>
    ELSE <<create_active_period(Head(rows))>> \o MapActivePeriods(Tail(rows))

RECURSIVE MapInformedEntities(_)
MapInformedEntities(rows) ==
    IF rows = <<>> THEN <<>>
    ELSE <<create_informed_entity(Head(rows))>> \o MapInformedEntities(Tail(rows))

Translation(text) == [translation |-> <<[text |-> text, language |-> "de-DE"]>>]

\* One iteration of the loop over the service-alert rows.
create_service_alert_entity(service_alert, alert_active_periods, alert_informed_entities) ==
    LET id == service_alert["service_alert_id"]
    IN  [id |-> id,
         alert |->
            [cause |-> service_alert["cause"],
             effect |-> service_alert["effect"],
             header_text |-> Translation(service_alert["header_text"]),
             description_text |-> Translation(service_alert["description_text"]),
             active_period |->
                MapActivePeriods(FilterRows(alert_active_periods, "service_alert_id", id)),
             informed_entity |->
                MapInformedEntities(
                    FilterRows(alert_informed_entities, "service_alert_id", id))]]

RECURSIVE MapServiceAlerts(_, _, _)
MapServiceAlerts(service_alerts, alert_active_periods, alert_informed_entities) ==
    IF service_alerts = <<>> THEN <<>>
    ELSE <<create_service_alert_entity(Head(service_alerts), alert_active_periods,
                                       alert_informed_entities)>>
         \o MapServiceAlerts(Tail(service_alerts), alert_active_periods,
                             alert_informed_entities)

\* The loop that fills `objects` in _service_alerts; it has no raising statement.
service_alerts_objects(service_alerts, alert_active_periods, alert_informed_entities) ==
    [ok |-> TRUE,
     objects |-> MapServiceAlerts(service_alerts, alert_active_periods,
                                  alert_informed_entities)]

-----------------------------------------------------------------------------
(* Vehicle positions assembler *)

PositionSource ==
    [bearing |-> "position_bearing", odometer |-> "position_odometer",
     speed |-> "position_speed"]

VehiclePositionSource ==
    [current_stop_sequence |-> "current_stop_sequence", stop_id |-> "stop_id",
     current_status |-> "current_status", timestamp |-> "timestamp",
     congestion_level |-> "congestion_level"]

\* One iteration of the loop over the vehicle-position rows.
create_vehicle_position_entity(vehicle_position) ==
    LET trip_descriptor == create_trip_descriptor(vehicle_position)
        vehicle_descriptor == create_vehicle_descriptor(vehicle_position)
    IN  [id |-> vehicle_position["vehicle_position_id"],
         vehicle |->
            (IF trip_descriptor # NoDescriptor
             THEN [trip |-> trip_descriptor] ELSE EmptyDict)
            @@ (IF vehicle_descriptor # NoDescriptor
                THEN [vehicle |-> vehicle_descriptor] ELSE EmptyDict)
            @@ [position |->
                    [latitude |-> vehicle_position["position_latitude"],
                     longitude |-> vehicle_position["position_longitude"]]
                    @@ SetIfNotNone(vehicle_position, PositionSource)]
            @@ SetIfNotNone(vehicle_position, VehiclePositionSource)]

RECURSIVE MapVehiclePositions(_)
MapVehiclePositions(vehicle_positions) ==
    IF vehicle_positions = <<>> THEN <<>>
    ELSE <<create_vehicle_position_entity(Head(vehicle_positions))>>
         \o MapVehiclePositions(Tail(vehicle_positions))

vehicle_positions_objects(vehicle_positions) ==
    [ok |-> TRUE, objects |-> MapVehiclePositions(vehicle_positions)]

-----------------------------------------------------------------------------
(* Envelope *)

\* floor(datetime.utcnow().timestamp()): utcnow() is a naive datetime holding
\* the UTC wall clock, and timestamp() reads a naive datetime as local time,
\* so the result is the epoch time minus the host's UTC offset.
utcnow_timestamp(epoch, offset) == epoch - offset

create_feed_message(entities, timestamp) ==
    [header |-> [gtfs_realtime_version |-> "2.0",
                 incrementality |-> "FULL_DATASET",
                 timestamp |-> timestamp],
     entity |-> entities]

-----------------------------------------------------------------------------
(* Serializers *)

\* A flat dict of scalars none of which the schema's typing rejects.
Typed(d) == \A k \in DOMAIN d : d[k] # Mistyped

TripDescriptorTyped(d) == "trip" \in DOMAIN d => Typed(d["trip"])

TranslationValid(t) ==
    \A i \in 1..Len(t["translation"]) :
        /\ t["translation"][i]["text"] # None      \* required string text
        /\ t["translation"][i]["text"] # Mistyped

AlertValid(alert) ==
    /\ alert["cause"] # Mistyped
    /\ alert["effect"] # Mistyped
    /\ TranslationValid(alert["header_text"])
    /\ TranslationValid(alert["description_text"])
    /\ \A i \in 1..Len(alert["active_period"]) : Typed(alert["active_period"][i])
    /\ \A i \in 1..Len(alert["informed_entity"]) :
          LET ie == alert["informed_entity"][i]
          IN  /\ \A k \in DOMAIN ie \ {"trip"} : ie[k] # Mistyped
              /\ TripDescriptorTyped(ie)

StopTimeUpdateValid(stu) ==
    /\ \A k \in DOMAIN stu \ {"arrival", "departure"} : stu[k] # Mistyped
    /\ Typed(stu["arrival"])
    /\ Typed(stu["departure"])

TripUpdateValid(tu) ==
    /\ "trip" \in DOMAIN tu                         \* required TripDescriptor trip
    /\ Typed(tu["trip"])
    /\ \A i \in 1..Len(tu["stop_time_update"]) :
          StopTimeUpdateValid(tu["stop_time_update"][i])

VehiclePositionValid(vp) ==
    /\ TripDescriptorTyped(vp)
    /\ ("vehicle" \in DOMAIN vp => Typed(vp["vehicle"]))
    /\ vp["position"]["latitude"] # None            \* required float latitude
    /\ vp["position"]["longitude"] # None           \* required float longitude
    /\ Typed(vp["position"])
    /\ \A k \in DOMAIN vp \ {"trip", "vehicle", "position"} : vp[k] # Mistyped

EntityValid(obj) ==
    /\ obj["id"] # None                             \* required string id
    /\ obj["id"] # Mistyped
    /\ ("alert" \in DOMAIN obj => AlertValid(obj["alert"]))
    /\ ("trip_update" \in DOMAIN obj => TripUpdateValid(obj["trip_update"]))
    /\ ("vehicle" \in DOMAIN obj => VehiclePositionValid(obj["vehicle"]))

\* What ParseDict and SerializeToString accept: ParseDict clears a field whose
\* value is None and raises ParseError on a value of the wrong type;
\* SerializeToString raises EncodeError when a required field is unset.
SchemaValid(feed_message) ==
    \A i \in 1..Len(feed_message["entity"]) : EntityValid(feed_message["entity"][i])

\* json.dumps(feed_message): the text of the dict as it is, None as null.
json_dumps(feed_message) ==
    [ok |-> TRUE, content |-> [encoding |-> "json", message |-> feed_message]]

\* A binary serializer that encodes whatever it is given.
pbf_unchecked(feed_message) ==
    [ok |-> TRUE, content |-> [encoding |-> "pbf", message |-> feed_message]]

\* ParseDict(feed_message, FeedMessage()).SerializeToString()
pbf_serialize(feed_message) ==
    IF SchemaValid(feed_message)
    THEN [ok |-> TRUE, content |-> [encoding |-> "pbf", message |-> feed_message]]
    ELSE [ok |-> FALSE, error |-> "SchemaError"]

-----------------------------------------------------------------------------
(* Inputs of the pure functions *)

MaxRows == 2

NotRun == [not_run |-> TRUE]

RECURSIVE SeqsUpTo(_, _)
SeqsUpTo(S, n) ==
    IF n = 0 THEN {<<>>}
    ELSE LET shorter == SeqsUpTo(S, n - 1)
         IN  shorter \cup {Append(q, x) : q \in {q \in shorter : Len(q) = n - 1}, x \in S}

AllNone(fields) == [k \in fields |-> None]

\* Rows carrying the ten descriptor source fields, each null, falsy or truthy.
DescriptorRows == [trip_descriptor_fields \cup vehicle_descriptor_fields -> FieldValues]

StopTimeUpdateRows ==
    {[trip_update_id |-> 1, stop_sequence |-> ss, stop_id |-> si,
      arrival_time |-> t[1], arrival_delay |-> t[2], arrival_uncertainty |-> t[3],
      departure_time |-> t[4], departure_delay |-> t[5],
      departure_uncertainty |-> t[6], schedule_relationship |-> sr] :
        ss \in {None, 1}, si \in {None, 1}, t \in [1..6 -> FieldValues],
        sr \in FieldValues}

\* Trip-update rows for the join: two ids, with or without a trip and a vehicle.
TripUpdateRows ==
    {[trip_update_id |-> id] @@ [trip_id |-> tr, vehicle_id |-> ve]
        @@ AllNone(trip_descriptor_fields \cup vehicle_descriptor_fields) :
        id \in {1, 2}, tr \in {None, 1}, ve \in {None, 1}}

\* Stop-time-update rows for the join: foreign key 3 matches no parent.
ChildStopTimeUpdateRows ==
    {[trip_update_id |-> fk, stop_sequence |-> ss, stop_id |-> None,
      arrival_time |-> None, arrival_delay |-> 0, arrival_uncertainty |-> None,
      departure_time |-> None, departure_delay |-> None,
      departure_uncertainty |-> None, schedule_relationship |-> 0] :
        fk \in {1, 2, 3}, ss \in {1, 2}}

TripUpdatesInputs ==
    [trip_updates : SeqsUpTo(TripUpdateRows, MaxRows),
     trip_stop_time_updates : SeqsUpTo(ChildStopTimeUpdateRows, MaxRows)]

-----------------------------------------------------------------------------
(* Configuration and construction: GtfsLakeRealtimeServer.__init__ *)

Endpoints == {"service_alerts", "trip_updates", "vehicle_positions"}

DefaultRouting ==
    [service_alerts_endpoint |-> "/gtfs/realtime/service-alerts.pbf",
     trip_updates_endpoint |-> "/gtfs/realtime/trip-updates.pbf",
     vehicle_positions_endpoint |-> "/gtfs/realtime/vehicle-positions.pbf"]

CustomRouting ==
    [service_alerts_endpoint |-> "/sa",
     trip_updates_endpoint |-> "/tu",
     vehicle_positions_endpoint |-> "/vp"]

\* The `caching` section of a configuration file.
CachingSections ==
    {[caching_server_endpoint |-> "127.0.0.1:11211",
      caching_service_alerts_ttl_seconds |-> 3,
      caching_trip_updates_ttl_seconds |-> 2,
      caching_vehicle_positions_ttl_seconds |-> 1],
     [caching_server_endpoint |-> "127.0.0.1:11211",
      caching_service_alerts_ttl_seconds |-> 60,
      caching_trip_updates_ttl_seconds |-> 30,
      caching_vehicle_positions_ttl_seconds |-> 15]}

\* Parsed configuration files: `caching_enabled` may be missing from `app`.
ConfigFiles ==
    {[app |-> ce @@ [cors_enabled |-> co, routing |-> ro], caching |-> ca] :
        ce \in {EmptyDict, [caching_enabled |-> TRUE], [caching_enabled |-> FALSE]},
        co \in BOOLEAN, ro \in {DefaultRouting, CustomRouting},
        ca \in CachingSections}

NoFile == [none |-> TRUE]
NoConfig == [none |-> TRUE]
NoRoutes == [e \in {} |-> ""]

\* The dict built when config_filename is None, up to the statement
\*   self._config['caching']['caching_server_endpoint'] = ''
\* which subscripts the key 'caching' that was never assigned: KeyError.
DefaultsBeforeKeyError ==
    [app |-> [caching_enabled |-> FALSE, cors_enabled |-> FALSE,
              routing |-> DefaultRouting]]

\* add_api_route for the three endpoints: route name -> path.
RegisteredRoutes(cfg) ==
    [service_alerts |-> cfg["app"]["routing"]["service_alerts_endpoint"],
     trip_updates |-> cfg["app"]["routing"]["trip_updates_endpoint"],
     vehicle_positions |-> cfg["app"]["routing"]["vehicle_positions_endpoint"]]

\* 'caching_enabled' in config['app'] and config['app']['caching_enabled'] == True
CachingConfigured(cfg) ==
    /\ "caching_enabled" \in DOMAIN cfg["app"]
    /\ cfg["app"]["caching_enabled"] = TRUE

Construct ==
    /\ server = "new"
    /\ IF config_filename = "none"
       THEN /\ config' = DefaultsBeforeKeyError
            /\ server' = "construct_error"
            /\ UNCHANGED <<routes, cache_client>>
       ELSE /\ config' = config_file
            /\ routes' = RegisteredRoutes(config_file)
            /\ cache_client' =
                  IF CachingConfigured(config_file) THEN "memcache" ELSE "none"
            /\ server' = "constructed"
    /\ UNCHANGED <<config_filename, config_file, mqtt>>
    /\ UNCHANGED serveVars
    /\ UNCHANGED pureVars

-----------------------------------------------------------------------------
(* Lifespan and notification client: _lifespan, _on_message *)

\* self._mqtt.connect(...): returns when the broker accepted the connection,
\* raises (OSError, socket.gaierror) when it cannot be reached.  Nothing in
\* _lifespan catches the exception, so the application's startup fails.
LifespanConnect ==
    /\ server = "constructed"
    /\ \/ mqtt' = "connected" /\ server' = "starting"
       \/ mqtt' = "connect_failed" /\ server' = "startup_error"
    /\ UNCHANGED <<config_filename, config_file, config, cache_client, routes>>
    /\ UNCHANGED serveVars
    /\ UNCHANGED pureVars

\* self._mqtt.loop_start()
LifespanLoopStart ==
    /\ server = "starting"
    /\ mqtt = "connected"
    /\ mqtt' = "looping"
    /\ UNCHANGED <<config_filename, config_file, config, cache_client, routes, server>>
    /\ UNCHANGED serveVars
    /\ UNCHANGED pureVars

\* self._mqtt.subscribe('any/topic'), then `yield`: subscribe reports a
\* failure through its return value, which is ignored.
LifespanSubscribe ==
    /\ server = "starting"
    /\ mqtt \in {"looping", "disconnected"}
    /\ IF mqtt = "looping"
       THEN mqtt' \in {"subscribed", "subscribe_failed"}
       ELSE mqtt' = mqtt
    /\ server' = "serving"
    /\ UNCHANGED <<config_filename, config_file, config, cache_client, routes>>
    /\ UNCHANGED serveVars
    /\ UNCHANGED pureVars

\* The broker drops the connection; the network loop thread notices.
BrokerDisconnect ==
    /\ mqtt \in {"looping", "subscribed", "subscribe_failed"}
    /\ mqtt' = "disconnected"
    /\ UNCHANGED <<config_filename, config_file, config, cache_client, routes, server>>
    /\ UNCHANGED serveVars
    /\ UNCHANGED pureVars

\* The network loop thread reconnects on its own.
BrokerReconnect ==
    /\ mqtt = "disconnected"
    /\ server \in {"starting", "serving"}
    /\ mqtt' = "looping"
    /\ UNCHANGED <<config_filename, config_file, config, cache_client, routes, server>>
    /\ UNCHANGED serveVars
    /\ UNCHANGED pureVars

\* After the yield: loop_stop() and disconnect().
LifespanShutdown ==
    /\ server = "serving"
    /\ \A c \in DOMAIN req : req[c]["pc"] = "idle"
    /\ server' = "stopped"
    /\ mqtt' = "stopped"
    /\ UNCHANGED <<config_filename, config_file, config, cache_client, routes>>
    /\ UNCHANGED serveVars
    /\ UNCHANGED pureVars

-----------------------------------------------------------------------------
(* Row Source: GtfsLake.fetch_realtime_* *)

ServiceAlertRow(id, cause, text) ==
    [service_alert_id |-> id, cause |-> cause, effect |-> 1,
     header_text |-> text, description_text |-> text]

ActivePeriodRow(fk, start, end) ==
    [service_alert_id |-> fk, start_timestamp |-> start, end_timestamp |-> end]

InformedEntityRow(fk, route_id, trip_id) ==
    [service_alert_id |-> fk, agency_id |-> None, route_id |-> route_id,
     route_type |-> None, stop_id |-> None, trip_id |-> trip_id]
    @@ AllNone(trip_descriptor_fields)

TripUpdateRow(id, trip_id, vehicle_id) ==
    [trip_update_id |-> id, trip_id |-> trip_id, vehicle_id |-> vehicle_id]
    @@ AllNone(trip_descriptor_fields \cup vehicle_descriptor_fields)

StopTimeUpdateRow(fk, stop_sequence, arrival_delay) ==
    [trip_update_id |-> fk, stop_sequence |-> stop_sequence, stop_id |-> None,
     arrival_time |-> None, arrival_delay |-> arrival_delay,
     arrival_uncertainty |-> None, departure_time |-> None,
     departure_delay |-> None, departure_uncertainty |-> None,
     schedule_relationship |-> 0]

VehiclePositionRow(id, latitude, trip_id, vehicle_id) ==
    [vehicle_position_id |-> id, trip_id |-> trip_id, vehicle_id |-> vehicle_id,
     position_latitude |-> latitude, position_longitude |-> 1,
     position_bearing |-> None, position_odometer |-> None, position_speed |-> 0,
     current_stop_sequence |-> None, stop_id |-> None, current_status |-> None,
     timestamp |-> None, congestion_level |-> None]
    @@ AllNone(trip_descriptor_fields \cup vehicle_descriptor_fields)

\* The three fetch results, by route name.
LakeA ==
    [service_alerts |->
        <<<<ServiceAlertRow(1, 1, 1)>>, <<ActivePeriodRow(1, 1, 2)>>,
          <<InformedEntityRow(1, 1, None)>>>>,
     trip_updates |->
        <<<<TripUpdateRow(1, 1, None)>>, <<StopTimeUpdateRow(1, 1, 0)>>>>,
     vehicle_positions |-> <<<<VehiclePositionRow(1, 1, 1, 1)>>>>]

\* The same entities with changed values.
LakeB ==
    [service_alerts |->
        <<<<ServiceAlertRow(1, 1, 2)>>, <<ActivePeriodRow(1, 1, 2)>>,
          <<InformedEntityRow(1, 1, 1)>>>>,
     trip_updates |->
        <<<<TripUpdateRow(1, 1, None)>>, <<StopTimeUpdateRow(1, 1, 1)>>>>,
     vehicle_positions |-> <<<<VehiclePositionRow(1, 2, 1, 1)>>>>]

\* Rows that make a request fail: an alert cause the schema does not know, a
\* trip update that names its vehicle, a vehicle position without a latitude.
LakeC ==
    [service_alerts |->
        <<<<ServiceAlertRow(1, Mistyped, 1)>>, <<>>, <<>>>>,
     trip_updates |->
        <<<<TripUpdateRow(1, 1, 1)>>, <<StopTimeUpdateRow(1, 1, 0)>>>>,
     vehicle_positions |-> <<<<VehiclePositionRow(1, None, None, None)>>>>]

\* The content the warehouse holds after its next ingestion.
NextSnapshot(content) ==
    CASE content = LakeA -> LakeB
      [] content = LakeB -> LakeC
      [] content = LakeC -> LakeA

-----------------------------------------------------------------------------
(* Response cache: memcache.Client get / set *)

NoValue == [none |-> TRUE]

\* memcached expires an entry once its expiry time is reached.
Live(entry, t) == t < entry["exptime"]

\* self._cache.get(key): the stored value, or None
cache_get(store, key, t) ==
    IF key \in DOMAIN store /\ Live(store[key], t)
    THEN store[key]["value"] ELSE NoValue

\* self._cache.set(key, value, time): stores value for `time` seconds
cache_set(store, key, value, ttl, t) ==
    [k \in DOMAIN store \cup {key} |->
        IF k = key THEN [value |-> value, exptime |-> t + ttl] ELSE store[k]]

\* self._cache.get(key) raising: the handler has no try around the call.
KeyRejected == [raised |-> "MemcachedKeyCharacterError"]

\* The client's check of a key, made before it contacts any server: a key
\* with a blank or a control character in it is refused.  Of the keys the
\* handlers build here, those are the ones made from the selector "a b".
check_key(key) ==
    \A routing \in {DefaultRouting, CustomRouting} : \A k \in DOMAIN routing :
        key # routing[k] \o "-" \o "a b"

\* cached_response = self._cache.get(key): the call raises on a key the
\* client refuses; otherwise it returns the stored value or None.  With the
\* server out of reach the outcome taken is the one most favourable to the
\* request, None, which `if cached_response is not None` treats as a miss.
client_get(store, key, t, up) ==
    IF ~ check_key(key) THEN KeyRejected
    ELSE IF up THEN cache_get(store, key, t) ELSE NoValue

\* self._cache.set(key, result, ttl), whose return value the handler drops;
\* the key is one the lookup has already passed.  With the server out of
\* reach the outcome taken is the one most favourable to the request:
\* nothing is stored and the call returns.
client_set(store, key, value, ttl, t, up) ==
    IF up THEN cache_set(store, key, value, ttl, t) ELSE store

\* The store after the entries that expired by time t are gone.
Expire(store, t) ==
    [k \in {k \in DOMAIN store : Live(store[k], t)} |-> store[k]]

-----------------------------------------------------------------------------
(* Request handlers: _service_alerts, _trip_updates, _vehicle_positions *)

NumClients == 2
MaxTime == 3
MaxRequests == 2

\* The requests in flight at once: a handler has no suspension point, so each
\* is a request in another worker process sharing the memcached server.
Clients == 1..NumClients

\* request.query_params: no selector, or f with a recognized or another value.
QueryParams == {EmptyDict, [f |-> "json"], [f |-> "xml"]}

\* format = request.query_params['f'] if 'f' in request.query_params else 'pbf'
format_of(query_params) ==
    IF "f" \in DOMAIN query_params THEN query_params["f"] ELSE "pbf"

\* f"{request.url.path}-{format}"
cache_key(path, format) == path \o "-" \o format

\* The default inverted: binary only when the selector resolves to pbf.
hit_mime_type_inverted(endpoint, query_params, format) ==
    IF format = "pbf" THEN "application/octet-stream" ELSE "application/json"

\* The media type chosen on a cache hit: _service_alerts tests `format`,
\* the other two handlers test the query parameter itself.
hit_mime_type(endpoint, query_params, format) ==
    IF endpoint = "service_alerts"
    THEN (IF format = "json" THEN "application/json" ELSE "application/octet-stream")
    ELSE (IF "f" \in DOMAIN query_params /\ query_params["f"] = "json"
          THEN "application/json" ELSE "application/octet-stream")

\* The TTL each handler passes to self._cache.set.
ttl_seconds(endpoint, cfg) ==
    CASE endpoint = "service_alerts" ->
            cfg["caching"]["caching_service_alerts_ttl_seconds"]
      [] endpoint = "trip_updates" ->
            cfg["caching"]["caching_trip_updates_ttl_seconds"]
      [] endpoint = "vehicle_positions" ->
            cfg["caching"]["caching_vehicle_positions_ttl_seconds"]

\* The loop of each handler that fills `objects` from the fetched row-sets.
objects_of(endpoint, rows) ==
    CASE endpoint = "service_alerts" -> service_alerts_objects(rows[1], rows[2], rows[3])
      [] endpoint = "trip_updates" -> trip_updates_objects(rows[1], rows[2])
      [] endpoint = "vehicle_positions" -> vehicle_positions_objects(rows[1])

\* if format == 'json': json.dumps(...) else: ParseDict(...).SerializeToString()
serialize(format, feed_message) ==
    IF format = "json" THEN json_dumps(feed_message) ELSE pbf_serialize(feed_message)

\* The media type of a freshly built response.
miss_mime_type(format) ==
    IF format = "json" THEN "application/json" ELSE "application/octet-stream"

Response(content, media_type) ==
    [status |-> 200, content |-> content, media_type |-> media_type]

Idle == [pc |-> "idle"]

Serving == server = "serving"

\* request.query_params whose selector has a blank in it: ?f=a%20b
UnkeyableQueryParams == {[f |-> "a b"]}

Failed(r, error) ==
    [pc |-> "error", endpoint |-> r["endpoint"],
     query_params |-> r["query_params"], format |-> r["format"],
     error |-> error, response |-> [status |-> 500]]

\* The request after the handler has read the format selector and looked the
\* key up in the cache: answered with the cached value on a hit; on its way to
\* the fetch on a miss or without a cache client; ended by a lookup that raises.
Looked(e, q) ==
    LET format == format_of(q)
        r == [endpoint |-> e, query_params |-> q, format |-> format]
        cached_response ==
            IF cache_client = "memcache"
            THEN client_get(cache, cache_key(routes[e], format), now, cache_up)
            ELSE NoValue
    IN  IF cached_response = KeyRejected
        THEN Failed(r, KeyRejected["raised"])
        ELSE IF cached_response # NoValue
        THEN [pc |-> "respond", endpoint |-> e, query_params |-> q,
              format |-> format, via |-> "hit",
              response |-> Response(cached_response, hit_mime_type(e, q, format))]
        ELSE [pc |-> "fetch", endpoint |-> e, query_params |-> q, format |-> format]

\* A GET arrives on one of the three routes, without a selector or with one
\* the cache client takes as part of a key.
Receive(c) ==
    /\ Serving
    /\ req[c]["pc"] = "idle"
    /\ received < MaxRequests
    /\ received' = received + 1
    /\ \E e \in Endpoints, q \in QueryParams :
          req' = [req EXCEPT ![c] = Looked(e, q)]
    /\ UNCHANGED <<cache_up, now, utc_offset, lake, cache>>
    /\ UNCHANGED startVars
    /\ UNCHANGED pureVars

\* A GET arrives on one of the three routes with a blank in its selector.
ReceiveUnkeyable(c) ==
    /\ Serving
    /\ req[c]["pc"] = "idle"
    /\ received < MaxRequests
    /\ received' = received + 1
    /\ \E e \in Endpoints, q \in UnkeyableQueryParams :
          req' = [req EXCEPT ![c] = Looked(e, q)]
    /\ UNCHANGED <<cache_up, now, utc_offset, lake, cache>>
    /\ UNCHANGED startVars
    /\ UNCHANGED pureVars

\* A handler that returns what it built without storing it.
Built_unstored(r, rows, t) ==
    LET objects == objects_of(r["endpoint"], rows)
        feed_message ==
            create_feed_message(objects["objects"], utcnow_timestamp(t, utc_offset))
        result == serialize(r["format"], feed_message)
    IN  IF ~ objects["ok"] THEN Failed(r, objects["error"])
        ELSE IF ~ result["ok"] THEN Failed(r, result["error"])
        ELSE [pc |-> "respond", endpoint |-> r["endpoint"],
              query_params |-> r["query_params"], format |-> r["format"],
              via |-> "miss",
              response |-> Response(result["content"], miss_mime_type(r["format"]))]

\* The request after the fetch of `rows`, the loop over the rows,
\* _create_feed_message at time t and the serialization: at the cache store
\* (with a cache client), at its response (without), or failed.
Built(r, rows, t) ==
    LET objects == objects_of(r["endpoint"], rows)
        feed_message ==
            create_feed_message(objects["objects"], utcnow_timestamp(t, utc_offset))
        result == serialize(r["format"], feed_message)
    IN  IF ~ objects["ok"] THEN Failed(r, objects["error"])
        ELSE IF ~ result["ok"] THEN Failed(r, result["error"])
        ELSE IF cache_client = "memcache"
        THEN [pc |-> "store", endpoint |-> r["endpoint"],
              query_params |-> r["query_params"], format |-> r["format"],
              result |-> result["content"]]
        ELSE [pc |-> "respond", endpoint |-> r["endpoint"],
              query_params |-> r["query_params"], format |-> r["format"],
              via |-> "miss",
              response |-> Response(result["content"], miss_mime_type(r["format"]))]

\* self._lake.fetch_realtime_*() returns the row-sets as they are now, then
\* the handler assembles and serializes them in memory; or the query raises.
Build(c) ==
    /\ req[c]["pc"] = "fetch"
    /\ \/ req' = [req EXCEPT ![c] = Built(req[c], lake[req[c]["endpoint"]], now)]
       \/ req' = [req EXCEPT ![c] = Failed(req[c], "QueryError")]
    /\ UNCHANGED <<cache_up, now, utc_offset, lake, cache, received>>
    /\ UNCHANGED startVars
    /\ UNCHANGED pureVars

\* self._cache.set(key, result, ttl), then the handler returns the response.
CacheStore(c) ==
    /\ req[c]["pc"] = "store"
    /\ LET r == req[c]
       IN  /\ cache' = client_set(cache, cache_key(routes[r["endpoint"]], r["format"]),
                                  r["result"], ttl_seconds(r["endpoint"], config), now,
                                  cache_up)
           /\ req' = [req EXCEPT ![c] =
                        [pc |-> "respond", endpoint |-> r["endpoint"],
                         query_params |-> r["query_params"],
                         format |-> r["format"], via |-> "miss",
                         response |->
                            Response(r["result"], miss_mime_type(r["format"]))]]
    /\ UNCHANGED <<cache_up, now, utc_offset, lake, received>>
    /\ UNCHANGED startVars
    /\ UNCHANGED pureVars

\* The response (or the server error) has been sent; the client may ask again.
Complete(c) ==
    /\ req[c]["pc"] \in {"respond", "error"}
    /\ req' = [req EXCEPT ![c] = Idle]
    /\ UNCHANGED <<cache_up, now, utc_offset, lake, cache, received>>
    /\ UNCHANGED startVars
    /\ UNCHANGED pureVars

\* A second passes; memcached drops what has expired.
Tick ==
    /\ now < MaxTime
    /\ now' = now + 1
    /\ cache' = Expire(cache, now + 1)
    /\ UNCHANGED <<cache_up, utc_offset, lake, req, received>>
    /\ UNCHANGED startVars
    /\ UNCHANGED pureVars

\* The warehouse ingests new realtime data.
UpdateLake ==
    /\ lake' = NextSnapshot(lake)
    /\ UNCHANGED <<cache_up, now, utc_offset, cache, req, received>>
    /\ UNCHANGED startVars
    /\ UNCHANGED pureVars

\* The memcached server becomes unreachable; what it holds stays in it.
BackendDown ==
    /\ cache_client = "memcache"
    /\ cache_up
    /\ cache_up' = FALSE
    /\ UNCHANGED <<now, utc_offset, lake, cache, req, received>>
    /\ UNCHANGED startVars
    /\ UNCHANGED pureVars

\* The memcached server can be reached again.
BackendUp ==
    /\ cache_client = "memcache"
    /\ ~ cache_up
    /\ cache_up' = TRUE
    /\ UNCHANGED <<now, utc_offset, lake, cache, req, received>>
    /\ UNCHANGED startVars
    /\ UNCHANGED pureVars

-----------------------------------------------------------------------------
(* Pure functions applied to drawn inputs *)

\* Service-alert row-sets for the join: parents with id 1 or 2; active
\* periods whose foreign key is 1, 3 (no such parent) or null; informed
\* entities whose foreign key is 1 or 2, with or without a route.
ServiceAlertsInputs ==
    [service_alerts : SeqsUpTo({ServiceAlertRow(id, 1, 1) : id \in {1, 2}}, MaxRows),
     alert_active_periods :
        SeqsUpTo({ActivePeriodRow(fk, start, 5) : fk \in {1, 3, None}, start \in {1, 2}},
                 MaxRows),
     alert_informed_entities :
        SeqsUpTo({InformedEntityRow(fk, ro, None) : fk \in {1, 2}, ro \in {None, 1}},
                 MaxRows)]

BuildDescriptors ==
    /\ task = "descriptors"
    /\ output = NotRun
    /\ output' = [trip |-> create_trip_descriptor(input),
                  vehicle |-> create_vehicle_descriptor(input)]
    /\ UNCHANGED <<task, input>>
    /\ UNCHANGED startVars
    /\ UNCHANGED serveVars

BuildStopTimeUpdate ==
    /\ task = "stop_time_update"
    /\ output = NotRun
    /\ output' = create_stop_time_update(input)
    /\ UNCHANGED <<task, input>>
    /\ UNCHANGED startVars
    /\ UNCHANGED serveVars

AssembleTripUpdates ==
    /\ task = "trip_updates"
    /\ output = NotRun
    /\ output' = trip_updates_objects(input["trip_updates"],
                                      input["trip_stop_time_updates"])
    /\ UNCHANGED <<task, input>>
    /\ UNCHANGED startVars
    /\ UNCHANGED serveVars

AssembleServiceAlerts ==
    /\ task = "service_alerts"
    /\ output = NotRun
    /\ output' = service_alerts_objects(input["service_alerts"],
                                        input["alert_active_periods"],
                                        input["alert_informed_entities"])
    /\ UNCHANGED <<task, input>>
    /\ UNCHANGED startVars
    /\ UNCHANGED serveVars

-----------------------------------------------------------------------------
(* Specifications *)

\* Configurations of the serving specification: default routes, caching on
\* or off, TTLs of 3, 2 and 1 seconds.
ServingConfigFiles ==
    {cf \in ConfigFiles :
        /\ "caching_enabled" \in DOMAIN cf["app"]
        /\ ~ cf["app"]["cors_enabled"]
        /\ cf["app"]["routing"] = DefaultRouting
        /\ cf["caching"]["caching_service_alerts_ttl_seconds"] = 3}

\* Host time zones: UTC, and a zone one hour east of it.
UtcOffsets == {0, 3600}

PureIdle == task = "none" /\ input = NotRun /\ output = NotRun

ServeQuiet ==
    /\ now = 0
    /\ utc_offset = 0
    /\ lake = LakeA
    /\ cache = EmptyDict
    /\ cache_up = TRUE
    /\ req = [c \in Clients |-> Idle]
    /\ received = 0

\* Request serving: a constructed server whose lifespan has started.
Init ==
    /\ config_filename = "file"
    /\ config_file \in ServingConfigFiles
    /\ config = config_file
    /\ cache_client = IF CachingConfigured(config_file) THEN "memcache" ELSE "none"
    /\ routes = RegisteredRoutes(config_file)
    /\ server = "serving"
    /\ mqtt = "subscribed"
    /\ ServeQuiet
    /\ PureIdle

Next ==
    \/ \E c \in Clients : Receive(c)
    \/ \E c \in Clients : Build(c)
    \/ \E c \in Clients : CacheStore(c)
    \/ \E c \in Clients : Complete(c)
    \/ Tick
    \/ UpdateLake

Spec == Init /\ [][Next]_vars

\* Request serving within one second of the clock, in which a handler that
\* has started runs on: the fetch, the loop, the serialization and the store
\* are synchronous calls.
NextFair ==
    \/ \E c \in Clients : Receive(c)
    \/ \E c \in Clients : Build(c)
    \/ \E c \in Clients : CacheStore(c)
    \/ \E c \in Clients : Complete(c)
    \/ UpdateLake

SpecFair ==
    /\ Init
    /\ [][NextFair]_vars
    /\ \A c \in Clients : WF_vars(Build(c)) /\ WF_vars(CacheStore(c))

\* Request serving on a host in either time zone.
InitZone ==
    /\ config_filename = "file"
    /\ config_file \in ServingConfigFiles
    /\ config = config_file
    /\ cache_client = IF CachingConfigured(config_file) THEN "memcache" ELSE "none"
    /\ routes = RegisteredRoutes(config_file)
    /\ server = "serving"
    /\ mqtt = "subscribed"
    /\ now = 0
    /\ utc_offset \in UtcOffsets
    /\ lake = LakeA
    /\ cache = EmptyDict
    /\ cache_up = TRUE
    /\ req = [c \in Clients |-> Idle]
    /\ received = 0
    /\ PureIdle

SpecZone == InitZone /\ [][Next]_vars

\* Request serving within one second of the clock, with caching enabled, a
\* memcached server that comes and goes, and selectors of any kind.
InitOutage ==
    /\ config_filename = "file"
    /\ config_file \in {cf \in ServingConfigFiles : CachingConfigured(cf)}
    /\ config = config_file
    /\ cache_client = "memcache"
    /\ routes = RegisteredRoutes(config_file)
    /\ server = "serving"
    /\ mqtt = "subscribed"
    /\ ServeQuiet
    /\ PureIdle

NextOutage ==
    \/ \E c \in Clients : Receive(c)
    \/ \E c \in Clients : ReceiveUnkeyable(c)
    \/ \E c \in Clients : Build(c)
    \/ \E c \in Clients : CacheStore(c)
    \/ \E c \in Clients : Complete(c)
    \/ UpdateLake
    \/ BackendDown
    \/ BackendUp

SpecOutage == InitOutage /\ [][NextOutage]_vars

\* Construction and lifespan, from the constructor's arguments on.
InitStartup ==
    /\ config_filename \in {"none", "file"}
    /\ config_file \in (IF config_filename = "none" THEN {NoFile} ELSE ConfigFiles)
    /\ config = NoConfig
    /\ cache_client = "unset"
    /\ routes = NoRoutes
    /\ server = "new"
    /\ mqtt = "idle"
    /\ ServeQuiet
    /\ PureIdle

NextStartup ==
    \/ Construct
    \/ LifespanConnect
    \/ LifespanLoopStart
    \/ LifespanSubscribe
    \/ BrokerDisconnect
    \/ BrokerReconnect
    \/ LifespanShutdown

SpecStartup == InitStartup /\ [][NextStartup]_vars

\* The pure assembly functions on inputs drawn from bounded sets.
InitAssemble ==
    /\ config_filename = "file"
    /\ config_file = NoFile
    /\ config = NoConfig
    /\ cache_client = "unset"
    /\ routes = NoRoutes
    /\ server = "new"
    /\ mqtt = "idle"
    /\ ServeQuiet
    /\ task \in {"descriptors", "stop_time_update", "trip_updates", "service_alerts"}
    /\ input \in (CASE task = "descriptors" -> DescriptorRows
                    [] task = "stop_time_update" -> StopTimeUpdateRows
                    [] task = "trip_updates" -> TripUpdatesInputs
                    [] task = "service_alerts" -> ServiceAlertsInputs)
    /\ output = NotRun

NextAssemble ==
    \/ BuildDescriptors
    \/ BuildStopTimeUpdate
    \/ AssembleTripUpdates
    \/ AssembleServiceAlerts

SpecAssemble == InitAssemble /\ [][NextAssemble]_vars

-----------------------------------------------------------------------------
(* Claims about the pure functions, under SpecAssemble *)

Ran(t) == task = t /\ output # NotRun

\* The child rows whose foreign key equals id, in the child row-set's order.
ChildrenOf(children, column, id) ==
    SelectSeq(children, LAMBDA ch : ch[column] = id)

\* C13: both assemblers give one entity per parent row, in the parent
\* row-set's order, and under each entity exactly the child rows whose foreign
\* key equals the parent's id, once each and in the child row-set's order; a
\* child row that matches no parent appears nowhere and causes no error.
C13_ChildrenByForeignKey ==
    /\ Ran("service_alerts") =>
          LET parents == input["service_alerts"]
          IN  /\ output["ok"]
              /\ Len(output["objects"]) = Len(parents)
              /\ \A i \in 1..Len(parents) :
                    LET obj == output["objects"][i]
                        id == parents[i]["service_alert_id"]
                        periods == ChildrenOf(input["alert_active_periods"],
                                              "service_alert_id", id)
                        informed == ChildrenOf(input["alert_informed_entities"],
                                               "service_alert_id", id)
                    IN  /\ obj["id"] = id
                        /\ Len(obj["alert"]["active_period"]) = Len(periods)
                        /\ \A j \in 1..Len(periods) :
                              obj["alert"]["active_period"][j]["start"]
                                  = periods[j]["start_timestamp"]
                        /\ Len(obj["alert"]["informed_entity"]) = Len(informed)
                        /\ \A j \in 1..Len(informed) :
                              ("route_id" \in DOMAIN obj["alert"]["informed_entity"][j])
                                  <=> informed[j]["route_id"] # None
    /\ Ran("trip_updates") =>
          LET parents == input["trip_updates"]
          IN  /\ output["ok"]
              /\ Len(output["objects"]) = Len(parents)
              /\ \A i \in 1..Len(parents) :
                    LET obj == output["objects"][i]
                        id == parents[i]["trip_update_id"]
                        updates == ChildrenOf(input["trip_stop_time_updates"],
                                              "trip_update_id", id)
                    IN  /\ obj["id"] = id
                        /\ Len(obj["trip_update"]["stop_time_update"]) = Len(updates)
                        /\ \A j \in 1..Len(updates) :
                              obj["trip_update"]["stop_time_update"][j]["stop_sequence"]
                                  = updates[j]["stop_sequence"]

\* C4: the trip-updates assembler yields, for every trip-update row and in the
\* parent row-set's order, exactly one entity with the row's id, a trip
\* descriptor iff a trip-reference field is non-null, a vehicle descriptor iff
\* a vehicle-reference field is non-null, and the matching stop-time updates
\* in the child set's order; a row with a vehicle field does not end in an error.
C4_TripUpdateEntities ==
    Ran("trip_updates") =>
        LET parents == input["trip_updates"]
            children == input["trip_stop_time_updates"]
        IN  /\ output["ok"]
            /\ Len(output["objects"]) = Len(parents)
            /\ \A i \in 1..Len(parents) :
                  LET obj == output["objects"][i]
                      row == parents[i]
                      mine == SelectSeq(children,
                                 LAMBDA ch : ch["trip_update_id"] = row["trip_update_id"])
                  IN  /\ obj["id"] = row["trip_update_id"]
                      /\ ("trip" \in DOMAIN obj["trip_update"])
                            <=> (\E k \in trip_descriptor_fields : row[k] # None)
                      /\ ("vehicle" \in DOMAIN obj["trip_update"])
                            <=> (\E k \in vehicle_descriptor_fields : row[k] # None)
                      /\ Len(obj["trip_update"]["stop_time_update"]) = Len(mine)
                      /\ \A j \in 1..Len(mine) :
                            obj["trip_update"]["stop_time_update"][j]["stop_sequence"]
                                = mine[j]["stop_sequence"]

\* C6: a builder returns a descriptor iff at least one of its source fields
\* (six for a trip, four for a vehicle) is non-null; the descriptor holds
\* exactly the non-null source fields under their output names, with their
\* values; an all-null row yields absence; the row is left as it was.
C6_DescriptorPresence ==
    Ran("descriptors") =>
        LET t == output["trip"]
            v == output["vehicle"]
            tripNull == /\ input["trip_id"] = None
                        /\ input["trip_route_id"] = None
                        /\ input["trip_direction_id"] = None
                        /\ input["trip_start_time"] = None
                        /\ input["trip_start_date"] = None
                        /\ input["trip_schedule_relationship"] = None
            vehicleNull == /\ input["vehicle_id"] = None
                           /\ input["vehicle_label"] = None
                           /\ input["vehicle_license_plate"] = None
                           /\ input["vehicle_wheelchair_accessible"] = None
            Holds(d, key, field) ==
                /\ (key \in DOMAIN d) <=> (input[field] # None)
                /\ (key \in DOMAIN d) => d[key] = input[field]
        IN  /\ (t = NoDescriptor) <=> tripNull
            /\ (v = NoDescriptor) <=> vehicleNull
            /\ t # NoDescriptor =>
                  /\ DOMAIN t \subseteq {"trip_id", "route_id", "direction_id",
                                         "start_time", "start_date",
                                         "schedule_relationship"}
                  /\ Holds(t, "trip_id", "trip_id")
                  /\ Holds(t, "route_id", "trip_route_id")
                  /\ Holds(t, "direction_id", "trip_direction_id")
                  /\ Holds(t, "start_time", "trip_start_time")
                  /\ Holds(t, "start_date", "trip_start_date")
                  /\ Holds(t, "schedule_relationship", "trip_schedule_relationship")
            /\ v # NoDescriptor =>
                  /\ DOMAIN v \subseteq {"id", "label", "license_plate",
                                         "wheelchair_accessible"}
                  /\ Holds(v, "id", "vehicle_id")
                  /\ Holds(v, "label", "vehicle_label")
                  /\ Holds(v, "license_plate", "vehicle_license_plate")
                  /\ Holds(v, "wheelchair_accessible", "vehicle_wheelchair_accessible")
            /\ DOMAIN input = trip_descriptor_fields \cup vehicle_descriptor_fields

\* A row whose only non-null fields are a direction id of 0 and a wheelchair
\* flag of 0 has been given to both builders.
C6_Witness ==
    /\ Ran("descriptors")
    /\ input["trip_direction_id"] = 0
    /\ \A k \in trip_descriptor_fields \ {"trip_direction_id"} : input[k] = None
    /\ input["vehicle_wheelchair_accessible"] = 0
    /\ \A k \in vehicle_descriptor_fields \ {"vehicle_wheelchair_accessible"} :
          input[k] = None
    /\ output["trip"] = [direction_id |-> 0]
    /\ output["vehicle"] = [wheelchair_accessible |-> 0]

\* C7: the arrival block of a stop-time update holds exactly those of time,
\* delay, uncertainty whose arrival source field is non-null, the departure
\* block exactly those whose departure source field is non-null; a present
\* falsy value (a delay of 0) is emitted; schedule_relationship is always
\* emitted.
C7_StopTimeEventFields ==
    Ran("stop_time_update") =>
        LET Block(b, time, delay, uncertainty) ==
                /\ DOMAIN b \subseteq {"time", "delay", "uncertainty"}
                /\ ("time" \in DOMAIN b) <=> (input[time] # None)
                /\ ("delay" \in DOMAIN b) <=> (input[delay] # None)
                /\ ("uncertainty" \in DOMAIN b) <=> (input[uncertainty] # None)
                /\ ("time" \in DOMAIN b) => b["time"] = input[time]
                /\ ("delay" \in DOMAIN b) => b["delay"] = input[delay]
                /\ ("uncertainty" \in DOMAIN b) => b["uncertainty"] = input[uncertainty]
        IN  /\ {"arrival", "departure", "schedule_relationship"} \subseteq DOMAIN output
            /\ Block(output["arrival"], "arrival_time", "arrival_delay",
                     "arrival_uncertainty")
            /\ Block(output["departure"], "departure_time", "departure_delay",
                     "departure_uncertainty")
            /\ output["schedule_relationship"] = input["schedule_relationship"]

\* A stop-time update with an arrival delay of 0, a departure time of 0 and
\* nothing else has been built.
C7_Witness ==
    /\ Ran("stop_time_update")
    /\ input["arrival_delay"] = 0
    /\ input["arrival_time"] = None
    /\ input["arrival_uncertainty"] = None
    /\ input["departure_time"] = 0
    /\ input["departure_delay"] = None
    /\ input["departure_uncertainty"] = None
    /\ output["arrival"] = [delay |-> 0]
    /\ output["departure"] = [time |-> 0]

-----------------------------------------------------------------------------
(* Claims about construction and the lifespan, under SpecStartup *)

\* The configuration the constructor is documented to fall back to.
BuiltInDefaults ==
    [app |-> [caching_enabled |-> FALSE, cors_enabled |-> FALSE,
              routing |-> DefaultRouting],
     caching |-> [caching_server_endpoint |-> "",
                  caching_service_alerts_ttl_seconds |-> 60,
                  caching_trip_updates_ttl_seconds |-> 30,
                  caching_vehicle_positions_ttl_seconds |-> 15]]

\* C8: without a configuration file the constructor succeeds with the
\* built-in defaults: caching and CORS disabled, the three default paths
\* registered, TTLs of 60, 30 and 15 seconds; start-up does not end in an error.
C8_DefaultsWithoutFile ==
    (config_filename = "none" /\ server # "new") =>
        /\ server # "construct_error"
        /\ config = BuiltInDefaults
        /\ routes = RegisteredRoutes(BuiltInDefaults)
        /\ cache_client = "none"

ListenerFailed == mqtt \in {"connect_failed", "subscribe_failed", "disconnected"}

\* C9: a failure of the change listener (the broker connection fails at
\* start-up, the subscription fails, the broker disconnects later) never puts
\* the server into a state in which requests are not served.
C9_ListenerIsolated ==
    ListenerFailed => server \in {"starting", "serving"}

-----------------------------------------------------------------------------
(* Claims about request serving, under Spec and SpecZone *)

IsJson(query_params) == "f" \in DOMAIN query_params /\ query_params["f"] = "json"

\* The literal selector of a request, an absent one counted as pbf.
Selector(query_params) ==
    IF "f" \in DOMAIN query_params THEN query_params["f"] ELSE "pbf"

\* The cache key the handler of endpoint e uses for query parameters q.
KeyOf(e, q) == routes[e] \o "-" \o Selector(q)

OwnTtl(e) ==
    CASE e = "service_alerts" -> config["caching"]["caching_service_alerts_ttl_seconds"]
      [] e = "trip_updates" -> config["caching"]["caching_trip_updates_ttl_seconds"]
      [] e = "vehicle_positions" ->
            config["caching"]["caching_vehicle_positions_ttl_seconds"]

\* The key under which alerts, trip updates and vehicle positions carry
\* their body in a feed entity.
BodyKey(e) ==
    CASE e = "service_alerts" -> "alert"
      [] e = "trip_updates" -> "trip_update"
      [] e = "vehicle_positions" -> "vehicle"

Responded(c) == req[c]["pc"] = "respond"

\* The selectors that resolve to the same output format as q.
SameFormat(q) == {q2 \in QueryParams : IsJson(q2) = IsJson(q)}

\* C1: with caching enabled, once a miss has stored a response, a request for
\* the same endpoint and output format that arrives before the entry's TTL
\* has run out returns exactly the stored bytes, whatever the Row Source holds
\* by then and whatever selector led to that format; a request that finds no
\* such entry (never stored, or expired) runs the pipeline on the Row
\* Source's current rows; and every store gives the entry the TTL of the
\* handler's own feed kind.
C1_CacheWithinTtl ==
    [][\A c \in Clients :
          /\ (cache_client = "memcache" /\ req[c]["pc"] = "idle"
                /\ req'[c]["pc"] # "idle") =>
                LET r == req'[c]
                    stored == {KeyOf(r["endpoint"], q2) : q2 \in SameFormat(r["query_params"])}
                    live == {k \in stored \cap DOMAIN cache : now < cache[k]["exptime"]}
                IN  IF live # {}
                    THEN /\ r["pc"] = "respond"
                         /\ r["via"] = "hit"
                         /\ \E k \in live :
                               /\ r["response"]["content"] = cache[k]["value"]
                               /\ cache[k]["exptime"] <= now + OwnTtl(r["endpoint"])
                    ELSE r["pc"] = "fetch"
          /\ (req[c]["pc"] = "fetch" /\ req'[c]["pc"] \in {"store", "respond"}) =>
                LET r == req'[c]
                    content == IF r["pc"] = "store" THEN r["result"]
                               ELSE r["response"]["content"]
                    fresh == objects_of(r["endpoint"], lake[r["endpoint"]])
                IN  /\ fresh["ok"]
                    /\ content["message"]["entity"] = fresh["objects"]
          /\ (req[c]["pc"] = "store" /\ req'[c]["pc"] = "respond") =>
                LET r == req'[c]
                    key == KeyOf(r["endpoint"], r["query_params"])
                IN  /\ key \in DOMAIN cache'
                    /\ cache'[key]["value"] = r["response"]["content"]
                    /\ cache'[key]["exptime"] = now + OwnTtl(r["endpoint"])
      ]_vars

\* C2: a request without f=json gets a binary payload as
\* application/octet-stream, a request with f=json the text payload as
\* application/json, whether the response was built or came from the cache.
C2_FormatSelectsPayload ==
    \A c \in Clients :
        Responded(c) =>
            LET response == req[c]["response"]
            IN  IF IsJson(req[c]["query_params"])
                THEN /\ response["media_type"] = "application/json"
                     /\ response["content"]["encoding"] = "json"
                ELSE /\ response["media_type"] = "application/octet-stream"
                     /\ response["content"]["encoding"] = "pbf"

\* A request with an unrecognized selector has been answered from the cache.
C2_Witness ==
    \E c \in Clients :
        /\ Responded(c)
        /\ req[c]["via"] = "hit"
        /\ req[c]["query_params"] = [f |-> "xml"]
        /\ req[c]["response"]["media_type"] = "application/octet-stream"

\* C3: the cache key is exactly the pair (endpoint, resolved output format).
\* Requests to one endpoint that resolve to the same format read and write
\* one entry whatever their literal selector, so the cache never holds two
\* entries of one endpoint in the same encoding; and an entry holds nothing
\* but a payload of its own endpoint in its own format.
C3_KeyIsEndpointAndFormat ==
    /\ \A e \in Endpoints : \A q1, q2 \in QueryParams :
          (/\ KeyOf(e, q1) \in DOMAIN cache
           /\ KeyOf(e, q2) \in DOMAIN cache
           /\ IsJson(q1) = IsJson(q2)) => KeyOf(e, q1) = KeyOf(e, q2)
    /\ \A e \in Endpoints : \A q \in QueryParams :
          KeyOf(e, q) \in DOMAIN cache =>
              LET value == cache[KeyOf(e, q)]["value"]
              IN  /\ value["encoding"] = (IF IsJson(q) THEN "json" ELSE "pbf")
                  /\ \A i \in 1..Len(value["message"]["entity"]) :
                        BodyKey(e) \in DOMAIN value["message"]["entity"][i]

\* C5: a text-mode request succeeds iff a binary-mode request for the same
\* envelope would: no payload built from an envelope that violates the
\* protocol schema is returned, in either mode.
C5_NoInvalidPayload ==
    \A c \in Clients :
        Responded(c) => SchemaValid(req[c]["response"]["content"]["message"])

\* C10: the header timestamp of a response is the time its envelope was
\* assembled; with caching enabled that time is at most the endpoint's TTL
\* before the response is served, under any interleaving; with caching
\* disabled it is the time of the request's own assembly.
C10_TimestampWithinTtl ==
    [][\A c \in Clients :
          /\ (req[c]["pc"] = "fetch" /\ req'[c]["pc"] = "store") =>
                req'[c]["result"]["message"]["header"]["timestamp"] = now
          /\ (req[c]["pc"] = "fetch" /\ req'[c]["pc"] = "respond") =>
                req'[c]["response"]["content"]["message"]["header"]["timestamp"] = now
          /\ (req[c]["pc"] # "respond" /\ req'[c]["pc"] = "respond"
                /\ cache_client = "memcache") =>
                LET assembled ==
                        req'[c]["response"]["content"]["message"]["header"]["timestamp"]
                IN  /\ assembled <= now
                    /\ now - assembled <= OwnTtl(req'[c]["endpoint"])
      ]_vars

\* C11: with caching enabled and the cache backend unreachable, a request is
\* handled as with caching disabled: its lookup ends neither in a cached
\* answer nor in an error but goes on to the Row Source, and its store
\* changes nothing and is followed by the response with the payload just
\* built, never by an error.
C11_OutageAsDisabled ==
    [][\A c \in Clients :
          /\ (~ cache_up /\ req[c]["pc"] = "idle" /\ req'[c]["pc"] # "idle")
                => req'[c]["pc"] = "fetch"
          /\ (~ cache_up /\ req[c]["pc"] = "store" /\ req'[c]["pc"] # "store")
                => /\ req'[c]["pc"] = "respond"
                   /\ req'[c]["response"] =
                         Response(req[c]["result"], miss_mime_type(req[c]["format"]))
                   /\ cache' = cache]_vars

\* The cache differs from what it was in nothing but the entry under key.
OnlyKeyWritten(key) ==
    /\ DOMAIN cache' = DOMAIN cache \cup {key}
    /\ \A k \in DOMAIN cache : k # key => cache'[k] = cache[k]

\* C12: a request goes from its arrival and lookup either straight to its
\* response (hit: the cached bytes as they are, no fetch, no cache write) or
\* through fetch, assembly and serialization to one cache store and then its
\* response (miss with caching enabled: the bytes stored are the bytes
\* returned, and nothing but a store writes the cache); a failing stage ends
\* it in error; and every request that has arrived ends in a response or an
\* error.
C12_RequestStateMachine ==
    /\ [][\A c \in Clients :
             /\ (req[c]["pc"] = "idle" /\ req'[c]["pc"] # "idle") =>
                   /\ cache' = cache
                   /\ \/ req'[c]["pc"] = "fetch"
                      \/ /\ req'[c]["pc"] = "respond"
                         /\ req'[c]["via"] = "hit"
                         /\ cache_client = "memcache"
                         /\ LET key == KeyOf(req'[c]["endpoint"],
                                             req'[c]["query_params"])
                            IN  /\ key \in DOMAIN cache
                                /\ req'[c]["response"]["content"] =
                                      cache[key]["value"]
             /\ (req[c]["pc"] = "fetch" /\ req'[c]["pc"] # "fetch") =>
                   /\ cache' = cache
                   /\ \/ req'[c]["pc"] = "error"
                      \/ cache_client = "memcache" /\ req'[c]["pc"] = "store"
                      \/ /\ cache_client # "memcache"
                         /\ req'[c]["pc"] = "respond"
                         /\ req'[c]["via"] = "miss"
             /\ (req[c]["pc"] = "store" /\ req'[c]["pc"] # "store") =>
                   LET key == KeyOf(req[c]["endpoint"], req[c]["query_params"])
                   IN  /\ req'[c]["pc"] = "respond"
                       /\ req'[c]["via"] = "miss"
                       /\ OnlyKeyWritten(key)
                       /\ cache'[key]["value"] = req[c]["result"]
                       /\ req'[c]["response"]["content"] = req[c]["result"]
             /\ (req[c]["pc"] \in {"respond", "error"} /\ req'[c] # req[c]) =>
                   /\ cache' = cache
                   /\ req'[c] = Idle]_vars
    /\ [][(\E k \in DOMAIN cache' : k \notin DOMAIN cache \/ cache'[k] # cache[k])
            => \E c \in Clients : req[c]["pc"] = "store" /\ req'[c]["pc"] = "respond"]_vars
    /\ \A c \in Clients :
          (req[c]["pc"] \in {"fetch", "store"}) ~> (req[c]["pc"] \in {"respond", "error"})

\* One request has been answered from the cache while another, which missed,
\* has stored the bytes it returns.
C12_Witness ==
    \E c, d \in Clients :
        /\ Responded(c) /\ req[c]["via"] = "hit"
        /\ Responded(d) /\ req[d]["via"] = "miss"
        /\ LET key == KeyOf(req[d]["endpoint"], req[d]["query_params"])
           IN  /\ key \in DOMAIN cache
               /\ cache[key]["value"] = req[d]["response"]["content"]

\* C14: a request that ends in error (the query, the assembly or the
\* serialization failed) leaves the cache as it was, so every cached binary
\* payload is one that passed serialization, and a later request that finds no
\* live entry under its key runs the pipeline again.
C14_ErrorLeavesCache ==
    /\ [][\A c \in Clients :
             /\ (req[c]["pc"] # "error" /\ req'[c]["pc"] = "error") => cache' = cache
             /\ (req[c]["pc"] = "error" /\ req'[c] # req[c]) => cache' = cache
             /\ (cache_client = "memcache" /\ req[c]["pc"] = "idle"
                   /\ req'[c]["pc"] # "idle") =>
                   LET key == KeyOf(req'[c]["endpoint"], req'[c]["query_params"])
                   IN  (key \notin DOMAIN cache \/ ~ Live(cache[key], now))
                          => req'[c]["pc"] = "fetch"]_vars
    /\ [](\A k \in DOMAIN cache :
             cache[k]["value"]["encoding"] = "pbf"
                => SchemaValid(cache[k]["value"]["message"]))

\* With caching enabled one request has ended in error, nothing is cached
\* under its key, and another request for the same key is running the pipeline.
C14_Witness ==
    /\ cache_client = "memcache"
    /\ \E c, d \in Clients :
          /\ req[c]["pc"] = "error"
          /\ req[d]["pc"] = "fetch"
          /\ req[d]["endpoint"] = req[c]["endpoint"]
          /\ req[d]["query_params"] = req[c]["query_params"]
          /\ KeyOf(req[c]["endpoint"], req[c]["query_params"]) \notin DOMAIN cache

=============================================================================
